---------------------------- MODULE Spec2Model ----------------------------
(***************************************************************************)
(* A model of go-pathlib (src/pathlib.go) on a non-Windows target.         *)
(*                                                                         *)
(* A Go string is a sequence of one-character strings.  A Path object is   *)
(* a cell of the heap holding its only field, path.  The pure helpers of   *)
(* the library and the path/filepath functions they call are operators;    *)
(* every exported constructor and method is one action of the machine.     *)
(***************************************************************************)
EXTENDS Naturals, Sequences, FiniteSets

(***************************************************************************)
(* Characters                                                              *)
(***************************************************************************)
pathSeparator == "/"
Backslash == "\\"
Space == " "
Dot == "."
Tab == "\t"
Newline == "\n"

\* unicode.IsSpace restricted to the characters of the model
IsSpace(c) == c \in {Space, Tab, Newline}

DotStr == <<Dot>>
DotDotStr == <<Dot, Dot>>
RootStr == <<pathSeparator>>
EmptyStr == <<>>

(***************************************************************************)
(* package strings                                                         *)
(***************************************************************************)
RECURSIVE TrimLeftSpace(_)
TrimLeftSpace(s) ==
    IF s # <<>> /\ IsSpace(Head(s)) THEN TrimLeftSpace(Tail(s)) ELSE s

RECURSIVE TrimRightSpace(_)
TrimRightSpace(s) ==
    IF s # <<>> /\ IsSpace(s[Len(s)])
    THEN TrimRightSpace(SubSeq(s, 1, Len(s) - 1))
    ELSE s

\* strings.TrimSpace
TrimSpace(s) == TrimRightSpace(TrimLeftSpace(s))

\* strings.ReplaceAll(s, "\\ ", " "): non-overlapping matches, left to right
RECURSIVE UnescapeSpaces(_)
UnescapeSpaces(s) ==
    IF s = <<>> THEN <<>>
    ELSE IF Len(s) >= 2 /\ s[1] = Backslash /\ s[2] = Space
         THEN <<Space>> \o UnescapeSpaces(SubSeq(s, 3, Len(s)))
         ELSE <<Head(s)>> \o UnescapeSpaces(Tail(s))

\* strings.ReplaceAll(s, "\\", pathSeparator)
BackslashesToSeparators(s) ==
    [i \in 1..Len(s) |-> IF s[i] = Backslash THEN pathSeparator ELSE s[i]]

\* strings.ReplaceAll(s, " ", "\\ ")
RECURSIVE EscapeSpaces(_)
EscapeSpaces(s) ==
    IF s = <<>> THEN <<>>
    ELSE (IF Head(s) = Space THEN <<Backslash, Space>> ELSE <<Head(s)>>)
         \o EscapeSpaces(Tail(s))

\* strings.Split(s, pathSeparator): the segments between separators, empty
\* ones kept
RECURSIVE SplitSep(_)
SplitSep(s) ==
    IF \A i \in 1..Len(s) : s[i] # pathSeparator THEN <<s>>
    ELSE LET k == CHOOSE i \in 1..Len(s) :
                      /\ s[i] = pathSeparator
                      /\ \A j \in 1..(i - 1) : s[j] # pathSeparator
         IN <<SubSeq(s, 1, k - 1)>> \o SplitSep(SubSeq(s, k + 1, Len(s)))

\* strings.Join(segs, pathSeparator)
RECURSIVE JoinSep(_)
JoinSep(segs) ==
    IF segs = <<>> THEN <<>>
    ELSE IF Len(segs) = 1 THEN segs[1]
    ELSE segs[1] \o <<pathSeparator>> \o JoinSep(Tail(segs))

\* index of the last separator of s, 0 when there is none
LastSepIndex(s) ==
    IF \A i \in 1..Len(s) : s[i] # pathSeparator THEN 0
    ELSE CHOOSE i \in 1..Len(s) :
             /\ s[i] = pathSeparator
             /\ \A j \in (i + 1)..Len(s) : s[j] # pathSeparator

(***************************************************************************)
(* package path/filepath (unix)                                            *)
(***************************************************************************)
\* The element loop of filepath.Clean: "." and empty elements are skipped,
\* ".." removes the last kept element that is not "..", is dropped at the
\* root, and is kept otherwise.
RECURSIVE CleanElems(_, _, _)
CleanElems(segs, kept, rooted) ==
    IF segs = <<>> THEN kept
    ELSE LET e == Head(segs)
             rest == Tail(segs)
         IN IF e = EmptyStr \/ e = DotStr
            THEN CleanElems(rest, kept, rooted)
            ELSE IF e = DotDotStr
            THEN IF kept # <<>> /\ kept[Len(kept)] # DotDotStr
                 THEN CleanElems(rest, SubSeq(kept, 1, Len(kept) - 1), rooted)
                 ELSE IF rooted
                      THEN CleanElems(rest, kept, rooted)
                      ELSE CleanElems(rest, Append(kept, e), rooted)
            ELSE CleanElems(rest, Append(kept, e), rooted)

\* filepath.Clean
Clean(path) ==
    IF path = <<>> THEN DotStr
    ELSE LET rooted == path[1] = pathSeparator
             cleaned == JoinSep(CleanElems(SplitSep(path), <<>>, rooted))
         IN IF rooted THEN <<pathSeparator>> \o cleaned
            ELSE IF cleaned = <<>> THEN DotStr ELSE cleaned

\* filepath.IsAbs
IsAbs(path) == path # <<>> /\ path[1] = pathSeparator

\* filepath.Dir
Dir(path) == Clean(SubSeq(path, 1, LastSepIndex(path)))

RECURSIVE TrimRightSeps(_)
TrimRightSeps(s) ==
    IF s # <<>> /\ s[Len(s)] = pathSeparator
    THEN TrimRightSeps(SubSeq(s, 1, Len(s) - 1))
    ELSE s

\* filepath.Base
FpBase(path) ==
    IF path = <<>> THEN DotStr
    ELSE LET p == TrimRightSeps(path)
             q == SubSeq(p, LastSepIndex(p) + 1, Len(p))
         IN IF q = <<>> THEN RootStr ELSE q

\* filepath.Split: <<dir, file>>
FpSplit(path) ==
    <<SubSeq(path, 1, LastSepIndex(path)),
      SubSeq(path, LastSepIndex(path) + 1, Len(path))>>

\* filepath.Join: leading empty elements are dropped, the rest is joined
\* with the separator and cleaned; "" when every element is empty
RECURSIVE FpJoin(_)
FpJoin(elems) ==
    IF elems = <<>> THEN EmptyStr
    ELSE IF Head(elems) = EmptyStr THEN FpJoin(Tail(elems))
    ELSE Clean(JoinSep(elems))


\* the elements filepath.Rel walks over: a rooted path starts with one empty
\* element, "" has none
RelElems(s) ==
    IF s = <<>> THEN <<>>
    ELSE IF s = RootStr THEN <<EmptyStr>>
    ELSE SplitSep(s)

\* number of leading elements two element lists share
RECURSIVE CommonPrefixLen(_, _)
CommonPrefixLen(bs, ts) ==
    IF bs # <<>> /\ ts # <<>> /\ Head(bs) = Head(ts)
    THEN 1 + CommonPrefixLen(Tail(bs), Tail(ts))
    ELSE 0

\* n times "..", joined by the separator
RECURSIVE DotDots(_)
DotDots(n) ==
    IF n = 0 THEN <<>>
    ELSE IF n = 1 THEN DotDotStr
    ELSE DotDotStr \o <<pathSeparator>> \o DotDots(n - 1)

\* filepath.Rel(basepath, targpath): [path, err]
Rel(basepath, targpath) ==
    LET base0 == Clean(basepath)
        targ == Clean(targpath)
        base == IF base0 = DotStr THEN EmptyStr ELSE base0
        bs == RelElems(base)
        ts == RelElems(targ)
        k == CommonPrefixLen(bs, ts)
        rest == JoinSep(SubSeq(ts, k + 1, Len(ts)))
    IN IF targ = base0 THEN [path |-> DotStr, err |-> FALSE]
       ELSE IF IsAbs(base) # IsAbs(targ)
            THEN [path |-> EmptyStr, err |-> TRUE]
       ELSE IF k < Len(bs) /\ k < Len(ts) /\ bs[k + 1] = DotDotStr
            THEN [path |-> EmptyStr, err |-> TRUE]
       ELSE IF k < Len(bs)
            THEN [path |-> IF k < Len(ts)
                           THEN DotDots(Len(bs) - k) \o <<pathSeparator>> \o rest
                           ELSE DotDots(Len(bs) - k),
                  err |-> FALSE]
       ELSE [path |-> rest, err |-> FALSE]

\* filepath.Abs(path) in working directory wd; wdErr: os.Getwd failed
Abs(path, wd, wdErr) ==
    IF IsAbs(path) THEN [path |-> Clean(path), err |-> FALSE]
    ELSE IF wdErr THEN [path |-> EmptyStr, err |-> TRUE]
    ELSE [path |-> FpJoin(<<wd, path>>), err |-> FALSE]

(***************************************************************************)
(* package pathlib: the functions of src/pathlib.go on the path field      *)
(***************************************************************************)
\* faulty variant: the call of filepath.Clean is left out
cleanPathStringNoClean(p) ==
    BackslashesToSeparators(UnescapeSpaces(TrimSpace(p)))

\* faulty variant: the remaining backslashes are not replaced
cleanPathStringKeepBackslash(p) ==
    Clean(UnescapeSpaces(TrimSpace(p)))

cleanPathString(p) ==
    Clean(BackslashesToSeparators(UnescapeSpaces(TrimSpace(p))))

\* NewPath(path).path
NewPath(path) == cleanPathString(path)

\* p.String()
String(p) == EscapeSpaces(p)

\* p.MarshalText()
MarshalText(p) == String(p)

\* p.Base()
Base(p) == FpBase(p)

\* p.Parent().path
Parent(p) == NewPath(Dir(p))

\* p.Split(): <<parent path, base>>
Split(p) == <<NewPath(FpSplit(p)[1]), FpSplit(p)[2]>>

\* p.Join(paths...).path, paths the path fields of the arguments
Join(p, paths) == NewPath(FpJoin(<<p>> \o paths))

\* p.JoinStrings(paths...).path
JoinStrings(p, paths) == NewPath(FpJoin(<<p>> \o paths))

\* PathFromParts(parts...).path
PathFromParts(parts) == JoinStrings(NewPath(DotStr), parts)

\* p.WithName(name).path
WithName(p, name) == JoinStrings(Parent(p), <<name>>)

\* p.Copy().path
Copy(p) == NewPath(p)

\* p.IsAbsolute(), p.IsRelative()
IsAbsolute(p) == IsAbs(p)
IsRelative(p) == ~IsAbsolute(p)

\* faulty variant: base and target are handed to filepath.Rel the wrong way
\* round
RelativeToSwapped(p, o) ==
    [path |-> NewPath(Rel(p, o).path), err |-> Rel(p, o).err]

\* p.RelativeTo(o): [path, err]
RelativeTo(p, o) ==
    [path |-> NewPath(Rel(o, p).path), err |-> Rel(o, p).err]

\* p.Absolute(): [path, err]
Absolute(p, wd, wdErr) ==
    [path |-> NewPath(Abs(p, wd, wdErr).path), err |-> Abs(p, wd, wdErr).err]

(***************************************************************************)
(* package strings and path/filepath, as the decomposing methods use them  *)
(***************************************************************************)
\* strings.TrimLeft(s, ".")
RECURSIVE TrimLeftDots(_)
TrimLeftDots(s) ==
    IF s # <<>> /\ Head(s) = Dot THEN TrimLeftDots(Tail(s)) ELSE s

\* strings.TrimRight(s, ".")
RECURSIVE TrimRightDots(_)
TrimRightDots(s) ==
    IF s # <<>> /\ s[Len(s)] = Dot
    THEN TrimRightDots(SubSeq(s, 1, Len(s) - 1))
    ELSE s

\* strings.Trim(s, ".")
TrimDots(s) == TrimRightDots(TrimLeftDots(s))

\* strings.TrimLeft(s, pathSeparator)
RECURSIVE TrimLeftSeps(_)
TrimLeftSeps(s) ==
    IF s # <<>> /\ Head(s) = pathSeparator THEN TrimLeftSeps(Tail(s)) ELSE s

\* strings.Trim(s, pathSeparator)
TrimSeps(s) == TrimRightSeps(TrimLeftSeps(s))

\* strings.Split(s, "."): the pieces between dots, empty ones kept; one
\* empty piece for the empty string
RECURSIVE SplitDot(_)
SplitDot(s) ==
    IF \A i \in 1..Len(s) : s[i] # Dot THEN <<s>>
    ELSE LET k == CHOOSE i \in 1..Len(s) :
                      /\ s[i] = Dot
                      /\ \A j \in 1..(i - 1) : s[j] # Dot
         IN <<SubSeq(s, 1, k - 1)>> \o SplitDot(SubSeq(s, k + 1, Len(s)))

\* strings.Join(strs, "")
RECURSIVE Concat(_)
Concat(strs) ==
    IF strs = <<>> THEN <<>> ELSE Head(strs) \o Concat(Tail(strs))

\* strings.SplitN(s, pathSeparator, 2)[0]: what precedes the first separator
RECURSIVE SplitN2First(_)
SplitN2First(s) ==
    IF s = <<>> \/ Head(s) = pathSeparator THEN <<>>
    ELSE <<Head(s)>> \o SplitN2First(Tail(s))

\* filepath.Ext(path): the suffix from the last dot of the last element on,
\* "" when that element has no dot
RECURSIVE Ext(_)
Ext(path) ==
    IF path = <<>> \/ path[Len(path)] = pathSeparator THEN <<>>
    ELSE IF path[Len(path)] = Dot THEN <<Dot>>
    ELSE LET e == Ext(SubSeq(path, 1, Len(path) - 1))
         IN IF e = <<>> THEN <<>> ELSE Append(e, path[Len(path)])

(***************************************************************************)
(* package pathlib: the decomposing methods                                *)
(***************************************************************************)
\* p.Parts()
Parts(p) ==
    IF TrimSeps(p) = EmptyStr THEN <<>> ELSE SplitSep(TrimSeps(p))

\* faulty variant: the leading dots of the base are not trimmed
ExtensionKeepLeadingDots(p) ==
    IF Base(p) = DotStr \/ Base(p) = DotDotStr \/ Base(p) = RootStr
    THEN EmptyStr
    ELSE Ext(Base(p))

\* p.Extension()
Extension(p) ==
    IF Base(p) = DotStr \/ Base(p) = DotDotStr \/ Base(p) = RootStr
    THEN EmptyStr
    ELSE Ext(TrimLeftDots(Base(p)))

\* p.Extensions()
Extensions(p) ==
    LET extensions == SplitDot(TrimSeps(TrimDots(Base(p))))
    IN [i \in 1..(Len(extensions) - 1) |-> <<Dot>> \o extensions[i + 1]]

\* p.MinimalStem(): base[:len(base)-len(strings.Join(p.Extensions(), ""))]
MinimalStem(p) ==
    IF Base(p) = DotStr \/ Base(p) = RootStr THEN EmptyStr
    ELSE SubSeq(Base(p), 1, Len(Base(p)) - Len(Concat(Extensions(p))))

\* faulty variant: every extension is cut off, not only the last
StemCutsAllExtensions(p) == MinimalStem(p)

\* p.Stem(): base[:len(base)-len(p.Extension())]
Stem(p) ==
    IF Base(p) = DotStr \/ Base(p) = RootStr THEN EmptyStr
    ELSE IF Base(p) = DotDotStr THEN DotDotStr
    ELSE SubSeq(Base(p), 1, Len(Base(p)) - Len(Extension(p)))

\* the slice expression of Stem is out of range (the call panics)
StemPanics(p) ==
    /\ Base(p) \notin {DotStr, RootStr, DotDotStr}
    /\ Len(Extension(p)) > Len(Base(p))

\* the loop of Root over the parts of a relative path: every part up to and
\* including the first that is not ".."
RECURSIVE rootParts(_)
rootParts(parts) ==
    IF parts = <<>> THEN <<>>
    ELSE IF Head(parts) # DotDotStr THEN <<Head(parts)>>
    ELSE <<Head(parts)>> \o rootParts(Tail(parts))

\* faulty variant: an absolute path gives its first segment
RootFirstSegment(p) ==
    IF IsRelative(p) THEN FpJoin(rootParts(Parts(p)))
    ELSE IF p = RootStr THEN p
    ELSE SplitN2First(Tail(p))

\* faulty variant: the loop over the parts never breaks
RootAllParts(p) ==
    IF IsRelative(p) THEN FpJoin(Parts(p))
    ELSE IF p = RootStr THEN p
    ELSE IF SplitN2First(p) = EmptyStr THEN RootStr
    ELSE SplitN2First(p)

\* p.Root()
Root(p) ==
    IF IsRelative(p) THEN FpJoin(rootParts(Parts(p)))
    ELSE IF p = RootStr THEN p
    ELSE IF SplitN2First(p) = EmptyStr THEN RootStr
    ELSE SplitN2First(p)

(***************************************************************************)
(* package strings: letter case                                            *)
(***************************************************************************)
\* the lower-case and the upper-case letters, in matching positions
Lowers ==
    <<"a", "b", "c", "d", "e", "f", "g", "h", "i", "j", "k", "l", "m",
      "n", "o", "p", "q", "r", "s", "t", "u", "v", "w", "x", "y", "z">>
Uppers ==
    <<"A", "B", "C", "D", "E", "F", "G", "H", "I", "J", "K", "L", "M",
      "N", "O", "P", "Q", "R", "S", "T", "U", "V", "W", "X", "Y", "Z">>

\* strings.ToLower, strings.ToUpper on one character: a character that is
\* no letter stays as it is
ToLowerChar(c) ==
    IF \E i \in DOMAIN Uppers : Uppers[i] = c
    THEN Lowers[CHOOSE i \in DOMAIN Uppers : Uppers[i] = c]
    ELSE c
ToUpperChar(c) ==
    IF \E i \in DOMAIN Lowers : Lowers[i] = c
    THEN Uppers[CHOOSE i \in DOMAIN Lowers : Lowers[i] = c]
    ELSE c

\* strings.ToLower(s)
ToLower(s) == [i \in DOMAIN s |-> ToLowerChar(s[i])]

(***************************************************************************)
(* package pathlib: comparison and case                                    *)
(***************************************************************************)
\* flipCase(s)
flipCase(s) ==
    IF s = EmptyStr THEN s
    ELSE IF ToLowerChar(Head(s)) = Head(s)
    THEN <<ToUpperChar(Head(s))>> \o Tail(s)
    ELSE <<ToLowerChar(Head(s))>> \o Tail(s)

\* equalsStringCaseInsensitive(first, second)
equalsStringCaseInsensitive(first, second) ==
    ToLower(cleanPathString(first)) = ToLower(cleanPathString(second))

\* p.Equals(other)
Equals(p, other) == p = other

\* p.EqualsString(other)
EqualsString(p, other) == p = cleanPathString(other)

\* p.EqualsCi(other)
EqualsCi(p, other) == equalsStringCaseInsensitive(String(p), String(other))

\* p.EqualsStringCi(other)
EqualsStringCi(p, other) == equalsStringCaseInsensitive(String(p), other)

(***************************************************************************)
(* The filesystem a call consults.  A filesystem f is a record: sensitive  *)
(* (names that differ in case are different names), entries (the names     *)
(* that exist) and denied (the names whose stat fails with an error other  *)
(* than not-found).  An entry is its own identity: no two names are        *)
(* linked to one file.                                                     *)
(***************************************************************************)
\* the names that are directories when they exist
DirNames == { <<"/">>, <<".">>, <<"d">> }

\* the entries of f the name resolves to
Found(f, name) ==
    {e \in f.entries :
        IF f.sensitive THEN e = name ELSE ToLower(e) = ToLower(name)}

\* os.Stat(name): err is "none", "notexist" or "other"; id is the entry
Stat(f, name) ==
    IF name \in f.denied THEN [err |-> "other", id |-> EmptyStr]
    ELSE IF Found(f, name) = {} THEN [err |-> "notexist", id |-> EmptyStr]
    ELSE [err |-> "none", id |-> CHOOSE e \in Found(f, name) : TRUE]

\* os.SameFile(a, b)
SameFile(a, b) == a.id = b.id

\* the pattern has one of the characters filepath.Glob treats as magic
hasMeta(pattern) ==
    \E i \in DOMAIN pattern : pattern[i] \in {"*", "?", "[", Backslash}

\* filepath.Match(pattern, "") reports ErrBadPattern: a character class
\* that is not closed
IsBadPattern(pattern) ==
    \E i \in DOMAIN pattern :
        /\ pattern[i] = "["
        /\ \A j \in (i + 1)..Len(pattern) : pattern[j] # "]"

\* filepath.Match(pattern, name) for patterns of literals, "*" and "?"
RECURSIVE Match(_, _)
Match(pattern, name) ==
    IF pattern = <<>> THEN name = <<>>
    ELSE IF Head(pattern) = "*"
    THEN Match(Tail(pattern), name)
         \/ (name # <<>> /\ Match(pattern, Tail(name)))
    ELSE IF Head(pattern) = "?"
    THEN name # <<>> /\ Match(Tail(pattern), Tail(name))
    ELSE /\ name # <<>>
         /\ Head(name) = Head(pattern)
         /\ Match(Tail(pattern), Tail(name))

\* the elements of a finite set in some order
RECURSIVE SeqOf(_)
SeqOf(S) ==
    IF S = {} THEN <<>>
    ELSE LET x == CHOOSE x \in S : TRUE
         IN <<x>> \o SeqOf(S \ {x})

\* filepath.Glob(pattern): [matches, err]; a pattern without magic
\* characters matches itself when it exists, another one the entries of its
\* directory whose names match
osGlob(f, pattern) ==
    IF IsBadPattern(pattern) THEN [matches |-> <<>>, err |-> TRUE]
    ELSE IF ~hasMeta(pattern)
    THEN [matches |-> IF Stat(f, pattern).err = "none"
                      THEN <<pattern>> ELSE <<>>,
          err |-> FALSE]
    ELSE [matches |->
              SeqOf({e \in f.entries \ {RootStr, DotStr} :
                        /\ Dir(e) = Clean(FpSplit(pattern)[1])
                        /\ Match(FpSplit(pattern)[2], FpBase(e))}),
          err |-> FALSE]

(***************************************************************************)
(* package pathlib: the methods that consult the filesystem                *)
(***************************************************************************)
pathCheckNoExist == 0
pathCheckFile == 1
pathCheckDir == 2

\* pathCheck(p): any error of os.Stat leaves fileInfo nil
pathCheck(p, f) ==
    IF Stat(f, p).err # "none" THEN pathCheckNoExist
    ELSE IF Stat(f, p).id \in DirNames THEN pathCheckDir
    ELSE pathCheckFile

\* p.Exists(), p.IsDir(), p.IsFile()
Exists(p, f) == pathCheck(p, f) # pathCheckNoExist
IsDir(p, f) == pathCheck(p, f) = pathCheckDir
IsFile(p, f) == pathCheck(p, f) = pathCheckFile

\* faulty variant: a receiver that is a file is handed to filepath.Glob
nativeGlobOnFiles(p, pattern, f) ==
    IF TrimSpace(pattern) = EmptyStr
    THEN [matches |-> <<>>, err |-> TRUE]
    ELSE IF ~Exists(p, f)
    THEN [matches |-> <<>>, err |-> TRUE]
    ELSE osGlob(f, FpJoin(<<p, pattern>>))

\* nativeGlob(p, pattern): [matches, err]
nativeGlob(p, pattern, f) ==
    IF TrimSpace(pattern) = EmptyStr
    THEN [matches |-> <<>>, err |-> TRUE]
    ELSE IF ~Exists(p, f)
    THEN [matches |-> <<>>, err |-> TRUE]
    ELSE IF ~IsDir(p, f)
    THEN [matches |-> <<>>, err |-> TRUE]
    ELSE osGlob(f, FpJoin(<<p, pattern>>))

\* p.Glob(pattern): [paths, err], paths the path fields of the Paths
Glob(p, pattern, f) ==
    IF nativeGlob(p, pattern, f).err THEN [paths |-> <<>>, err |-> TRUE]
    ELSE [paths |-> [i \in DOMAIN nativeGlob(p, pattern, f).matches |->
                        NewPath(nativeGlob(p, pattern, f).matches[i])],
          err |-> FALSE]

\* p.Contains(pattern): [val, err]
Contains(p, pattern, f) ==
    IF nativeGlob(p, pattern, f).err THEN [val |-> FALSE, err |-> TRUE]
    ELSE [val |-> Len(nativeGlob(p, pattern, f).matches) # 0,
          err |-> FALSE]

\* p.BContains(pattern)
BContains(p, pattern, f) == Contains(p, pattern, f).val

\* the sibling IsCaseSensitiveFs probes
alt(p) == JoinStrings(Parent(p), <<flipCase(Base(p))>>)

\* IsCaseSensitiveFs(p): [val, err]
IsCaseSensitiveFs(p, f) ==
    IF Stat(f, p).err # "none" THEN [val |-> FALSE, err |-> TRUE]
    ELSE IF Stat(f, alt(p)).err = "notexist"
    THEN [val |-> TRUE, err |-> FALSE]
    ELSE IF Stat(f, alt(p)).err # "none"
    THEN [val |-> FALSE, err |-> TRUE]
    ELSE [val |-> ~SameFile(Stat(f, p), Stat(f, alt(p))), err |-> FALSE]

\* p.EqualsFS(other)
EqualsFS(p, other, f) ==
    IF ~equalsStringCaseInsensitive(String(p), String(other)) THEN FALSE
    ELSE IF IsCaseSensitiveFs(p, f).err THEN FALSE
    ELSE IF IsCaseSensitiveFs(p, f).val THEN p = other
    ELSE TRUE

(***************************************************************************)
(* Bounds and inputs                                                       *)
(***************************************************************************)
\* calls a run makes
MaxCalls == 3
\* arguments passed to a variadic method
MaxArgs == 2

\* all sequences over S of length at most n
SeqsUpTo(S, n) == UNION {[1..k -> S] : k \in 0..n}

\* strings a caller passes to NewPath and UnmarshalText: the plain and the
\* messy inputs of the tests (dot segments, doubled and trailing separators,
\* surrounding whitespace, escaped spaces, backslashes)
Raws ==
    { <<>>,
      <<"/">>,
      <<".", ".">>,
      <<"a">>,
      <<"/", "a", "/">>,
      <<"a", "/", "/", "b">>,
      <<"/", ".", ".", "/", ".", ".">>,
      <<"f", "o", "o", "/", ".", ".", "/", ".", ".", "/", "b", "a", "r">>,
      <<"\t", "a", "\n">>,
      <<"\\", " ", "a">>,
      <<"a", "\\", " ", "/">>,
      <<".", "/", " ", "/">>,
      <<"c", ":", "\\", "\\", "h", "e", "l", "l", "o">> }

\* strings a caller passes as a part or a name
Names == { <<"a">>, <<".", ".">>, <<"/", "b">>, <<" ", "a", "\\", "b">> }

\* what the environment answers for the working directory
EnvPaths == { <<"/">>, <<"/", "a", " ">> }

(***************************************************************************)
(* State                                                                   *)
(***************************************************************************)
VARIABLES
    heap,   \* heap[i]: the path field of the i-th allocated Path
    last,   \* the last call: its operation, operands and results
    calls   \* calls made so far

vars == <<heap, last, calls>>

Objs == DOMAIN heap

\* a call record; recv and res are heap indices, 0 for none (res: nil)
Call(op, recv, args, raws, res, err, out) ==
    [op |-> op, recv |-> recv, args |-> args, raws |-> raws,
     res |-> res, err |-> err, out |-> out]

\* one more call is made
Called ==
    /\ calls < MaxCalls
    /\ calls' = calls + 1

\* the call returns a newly allocated Path holding path
Alloc(path, op, recv, args, raws, err, out) ==
    /\ Called
    /\ heap' = Append(heap, path)
    /\ last' = Call(op, recv, args, raws, Len(heap) + 1, err, out)

\* the call returns no new Path: nil (res = 0) or an existing one
NoAlloc(op, recv, args, raws, res, err, out) ==
    /\ Called
    /\ heap' = heap
    /\ last' = Call(op, recv, args, raws, res, err, out)

\* texts a caller can hand in: its own strings and what MarshalText gave it
Texts == Raws \cup {MarshalText(heap[j]) : j \in Objs}

Init ==
    /\ heap = <<>>
    /\ last = Call("init", 0, <<>>, <<>>, 0, FALSE, <<>>)
    /\ calls = 0

(***************************************************************************)
(* Constructors                                                            *)
(***************************************************************************)
DoNewPath ==
    \E raw \in Texts :
        Alloc(NewPath(raw), "NewPath", 0, <<>>, <<raw>>, FALSE, <<>>)

DoPathFromParts ==
    \E parts \in SeqsUpTo(Names, MaxArgs) :
        Alloc(PathFromParts(parts), "PathFromParts", 0, <<>>, parts,
              FALSE, <<>>)

(***************************************************************************)
(* Methods returning a Path                                                *)
(***************************************************************************)
\* faulty variant: Parent overwrites its receiver and returns it
DoParentInPlace ==
    \E p \in Objs :
        /\ Called
        /\ heap' = [heap EXCEPT ![p] = Parent(heap[p])]
        /\ last' = Call("Parent", p, <<>>, <<>>, p, FALSE, <<>>)

DoParent ==
    \E p \in Objs :
        Alloc(Parent(heap[p]), "Parent", p, <<>>, <<>>, FALSE, <<>>)

DoSplit ==
    \E p \in Objs :
        Alloc(Split(heap[p])[1], "Split", p, <<>>, <<>>, FALSE,
              Split(heap[p])[2])

DoCopy ==
    \E p \in Objs :
        Alloc(Copy(heap[p]), "Copy", p, <<>>, <<>>, FALSE, <<>>)

DoWithName ==
    \E p \in Objs, name \in Names \cup {Base(heap[q]) : q \in Objs} :
        Alloc(WithName(heap[p], name), "WithName", p, <<>>, <<name>>,
              FALSE, <<>>)

DoJoin ==
    \E p \in Objs, paths \in SeqsUpTo(Objs, MaxArgs) :
        Alloc(Join(heap[p], [i \in DOMAIN paths |-> heap[paths[i]]]),
              "Join", p, paths, <<>>, FALSE, <<>>)

DoJoinStrings ==
    \E p \in Objs, paths \in SeqsUpTo(Names, MaxArgs) :
        Alloc(JoinStrings(heap[p], paths), "JoinStrings", p, <<>>, paths,
              FALSE, <<>>)

\* a Path is returned together with the error
DoRelativeTo ==
    \E p \in Objs, o \in Objs :
        Alloc(RelativeTo(heap[p], heap[o]).path, "RelativeTo", p, <<o>>,
              <<>>, RelativeTo(heap[p], heap[o]).err, <<>>)

\* a Path is returned together with the error; the environment answers
\* the working directory or an error
DoAbsolute ==
    \E p \in Objs, wd \in EnvPaths, wdErr \in BOOLEAN :
        Alloc(Absolute(heap[p], wd, wdErr).path, "Absolute", p, <<>>,
              <<>>, Absolute(heap[p], wd, wdErr).err, <<>>)

\* the text of the error AbsoluteTo returns
errOtherNotAbsolute == "other path must be absolute"

\* faulty variant: a relative o is joined like an absolute one
DoAbsoluteToUnchecked ==
    \E p \in Objs, o \in Objs :
        IF IsAbsolute(heap[p])
        THEN NoAlloc("AbsoluteTo", p, <<o>>, <<>>, p, FALSE, <<>>)
        ELSE Alloc(Join(heap[o], <<heap[p]>>), "AbsoluteTo", p, <<o>>,
                   <<>>, FALSE, <<>>)

\* an absolute receiver is returned itself; a relative one needs an
\* absolute o and is joined to it; out holds the text of the error
DoAbsoluteTo ==
    \E p \in Objs, o \in Objs :
        IF IsAbsolute(heap[p])
        THEN NoAlloc("AbsoluteTo", p, <<o>>, <<>>, p, FALSE, <<>>)
        ELSE IF IsRelative(heap[o])
        THEN NoAlloc("AbsoluteTo", p, <<o>>, <<>>, 0, TRUE,
                     errOtherNotAbsolute)
        ELSE Alloc(Join(heap[o], <<heap[p]>>), "AbsoluteTo", p, <<o>>,
                   <<>>, FALSE, <<>>)

(***************************************************************************)
(* Text encoding                                                           *)
(***************************************************************************)
\* *p = *NewPath(string(text)): the receiver is overwritten in place
DoUnmarshalText ==
    \E p \in Objs, text \in Texts :
        /\ Called
        /\ heap' = [heap EXCEPT ![p] = NewPath(text)]
        /\ last' = Call("UnmarshalText", p, <<>>, <<text>>, 0, FALSE, <<>>)

Next ==
    \/ DoNewPath
    \/ DoPathFromParts
    \/ DoParent
    \/ DoSplit
    \/ DoCopy
    \/ DoWithName
    \/ DoJoin
    \/ DoJoinStrings
    \/ DoRelativeTo
    \/ DoAbsolute
    \/ DoAbsoluteTo
    \/ DoUnmarshalText

Spec == Init /\ [][Next]_vars

(***************************************************************************)
(* The normaliser alone, on every short string                             *)
(***************************************************************************)
\* length up to which every string over Alphabet is an input
MaxLen == 4

Alphabet == {pathSeparator, Dot, Backslash, Space, "a"}

AllRaws == SeqsUpTo(Alphabet, MaxLen) \cup Raws

\* NewPath(raw) as the first call of a run, raw any short string
DoNewPathAny ==
    /\ calls = 0
    /\ \E raw \in AllRaws :
           Alloc(NewPath(raw), "NewPath", 0, <<>>, <<raw>>, FALSE, <<>>)

\* NewPath(p.String()) on the Path the first call made
DoNewPathOfString ==
    /\ calls = 1
    /\ \E p \in Objs :
           Alloc(NewPath(String(heap[p])), "NewPath", 0, <<>>,
                 <<String(heap[p])>>, FALSE, <<>>)

\* p.Copy() on the Path the first call made
DoCopyFirst ==
    /\ calls = 1
    /\ DoCopy

NextNorm ==
    \/ DoNewPathAny
    \/ DoNewPathOfString
    \/ DoCopyFirst

SpecNorm == Init /\ [][NextNorm]_vars

(***************************************************************************)
(* The decomposing methods, on every short string                          *)
(***************************************************************************)
\* the file names and paths the tests of the decomposing methods construct
ViewRaws ==
    { <<"b", "a", "r", ".", "j", "s">>,
      <<"b", "a", "r", ".", "j", "s", ".", "f", "o", "o">>,
      <<".", "b", "a", "r", ".", "j", "s">>,
      <<".", ".", "b", "a", "r", ".", "j", "s">>,
      <<".", ".", "b", "a", "r">>,
      <<".", ".", ".", "b", "a", "r">>,
      <<".", ".", "/", "b", "a", "r", ".", "j", "s", ".", "f", "o", "o">>,
      <<"/", "f", "o", "o", "/", "b", "a", "r", ".", "j", "s">>,
      <<".", ".", "/", ".", ".", "/", "b", "a", "r", ".", "j", "s">>,
      <<"f", "o", "o", "/", "b", "a", "r">>,
      <<"c", ":", "/", "f", "o", "o">>,
      <<"c", ":", "\\", "\\">> }

\* NewPath(raw) as the first call of a run, raw any short string or one of
\* the tests' paths
DoNewPathViewed ==
    /\ calls = 0
    /\ \E raw \in AllRaws \cup ViewRaws :
           Alloc(NewPath(raw), "NewPath", 0, <<>>, <<raw>>, FALSE, <<>>)

\* the methods below return strings; out holds the value returned
DoBase ==
    /\ calls = 1
    /\ \E p \in Objs :
           NoAlloc("Base", p, <<>>, <<>>, 0, FALSE, Base(heap[p]))

DoExtension ==
    /\ calls = 1
    /\ \E p \in Objs :
           NoAlloc("Extension", p, <<>>, <<>>, 0, FALSE, Extension(heap[p]))

DoExtensions ==
    /\ calls = 1
    /\ \E p \in Objs :
           NoAlloc("Extensions", p, <<>>, <<>>, 0, FALSE, Extensions(heap[p]))

\* err: the slice expression panics
DoStem ==
    /\ calls = 1
    /\ \E p \in Objs :
           NoAlloc("Stem", p, <<>>, <<>>, 0, StemPanics(heap[p]),
                   Stem(heap[p]))

DoMinimalStem ==
    /\ calls = 1
    /\ \E p \in Objs :
           NoAlloc("MinimalStem", p, <<>>, <<>>, 0, FALSE,
                   MinimalStem(heap[p]))

DoRoot ==
    /\ calls = 1
    /\ \E p \in Objs :
           NoAlloc("Root", p, <<>>, <<>>, 0, FALSE, Root(heap[p]))

\* p.Split() on the Path the first call made
DoSplitFirst ==
    /\ calls = 1
    /\ DoSplit

NextView ==
    \/ DoNewPathViewed
    \/ DoSplitFirst
    \/ DoBase
    \/ DoExtension
    \/ DoExtensions
    \/ DoStem
    \/ DoMinimalStem
    \/ DoRoot

SpecView == Init /\ [][NextView]_vars

(***************************************************************************)
(* The comparing methods and the methods that consult the filesystem       *)
(***************************************************************************)
\* strings a caller passes to NewPath and EqualsStringCi: names in both
\* cases, a name that starts with a dot, names with an escaped space at an
\* end, a directory, the root and the empty string
FsRaws ==
    { <<"a">>, <<"A">>, <<".", "a">>, <<".", "A">>, <<"\\", " ", "a">>,
      <<"a", "\\", " ", "/">>, <<"d">>, <<"/">>, <<>> }

\* patterns a caller passes to Glob, Contains and BContains
Patterns == { <<>>, <<" ">>, <<"*">>, <<"a">>, <<"[">> }

\* names that may exist, beside the root and the working directory
FsNames == { <<"a">>, <<"A">>, <<".", "a">>, <<" ", "a">>, <<"d">> }

\* the filesystems a call may find: on one that is not sensitive no two
\* entries differ in case only
FileSystems ==
    {f \in [sensitive : BOOLEAN,
            entries : {S \cup {RootStr, DotStr} : S \in SUBSET FsNames},
            denied : {{}, {<<"a">>}, {<<"A">>}}] :
        f.sensitive \/ \A d, e \in f.entries : ToLower(d) = ToLower(e) => d = e}

\* NewPath(raw), one of the first two calls of a run
DoNewPathFs ==
    /\ calls < 2
    /\ last.op \in {"init", "NewPath"}
    /\ \E raw \in FsRaws :
           Alloc(NewPath(raw), "NewPath", 0, <<>>, <<raw>>, FALSE, <<>>)

\* the calls below end a run: those on one Path follow the first NewPath,
\* those on two the second; out holds the filesystem the call found and the
\* value it returned

\* flipCase(p.Base()), as IsCaseSensitiveFs calls it
DoFlipCase ==
    /\ calls = 1
    /\ \E p \in Objs :
           NoAlloc("flipCase", p, <<>>, <<Base(heap[p])>>, 0, FALSE,
                   flipCase(Base(heap[p])))

DoEqualsCi ==
    /\ last.op = "NewPath"
    /\ \E p \in Objs, o \in Objs :
           NoAlloc("EqualsCi", p, <<o>>, <<>>, 0, FALSE,
                   EqualsCi(heap[p], heap[o]))

DoEqualsStringCi ==
    /\ calls = 1
    /\ \E p \in Objs, other \in FsRaws :
           NoAlloc("EqualsStringCi", p, <<>>, <<other>>, 0, FALSE,
                   EqualsStringCi(heap[p], other))

DoIsCaseSensitiveFs ==
    /\ calls = 1
    /\ \E p \in Objs, f \in FileSystems :
           NoAlloc("IsCaseSensitiveFs", p, <<>>, <<>>, 0,
                   IsCaseSensitiveFs(heap[p], f).err,
                   [fs |-> f, val |-> IsCaseSensitiveFs(heap[p], f).val])

DoEqualsFS ==
    /\ last.op = "NewPath"
    /\ \E p \in Objs, o \in Objs, f \in FileSystems :
           NoAlloc("EqualsFS", p, <<o>>, <<>>, 0, FALSE,
                   [fs |-> f, val |-> EqualsFS(heap[p], heap[o], f)])

\* the Paths Glob returns are allocated; val holds their heap indices
DoGlob ==
    /\ calls = 1
    /\ \E p \in Objs, pattern \in Patterns, f \in FileSystems :
           /\ Called
           /\ heap' = heap \o Glob(heap[p], pattern, f).paths
           /\ last' = Call("Glob", p, <<>>, <<pattern>>, 0,
                           Glob(heap[p], pattern, f).err,
                           [fs |-> f,
                            val |-> [i \in DOMAIN Glob(heap[p], pattern, f).paths
                                        |-> Len(heap) + i]])

DoContains ==
    /\ calls = 1
    /\ \E p \in Objs, pattern \in Patterns, f \in FileSystems :
           NoAlloc("Contains", p, <<>>, <<pattern>>, 0,
                   Contains(heap[p], pattern, f).err,
                   [fs |-> f, val |-> Contains(heap[p], pattern, f).val])

DoBContains ==
    /\ calls = 1
    /\ \E p \in Objs, pattern \in Patterns, f \in FileSystems :
           NoAlloc("BContains", p, <<>>, <<pattern>>, 0, FALSE,
                   [fs |-> f, val |-> BContains(heap[p], pattern, f)])

NextFs ==
    \/ DoNewPathFs
    \/ DoFlipCase
    \/ DoEqualsCi
    \/ DoEqualsStringCi
    \/ DoIsCaseSensitiveFs
    \/ DoEqualsFS
    \/ DoGlob
    \/ DoContains
    \/ DoBContains

SpecFs == Init /\ [][NextFs]_vars

(***************************************************************************)
(* Vocabulary of the properties                                            *)
(***************************************************************************)
\* the Path a decoding call produced: NewPath returns it, UnmarshalText
\* writes it into its receiver
Decoded == IF last.op = "NewPath" THEN last.res ELSE last.recv

HasDoubledSeparator(s) ==
    \E i \in 1..(Len(s) - 1) : s[i] = pathSeparator /\ s[i + 1] = pathSeparator

EndsWithSeparator(s) == s # <<>> /\ s[Len(s)] = pathSeparator

\* "." only as the whole value; ".." only as a leading run of a relative
\* value
DotSegmentsResolved(s) ==
    LET segs == SplitSep(s)
    IN /\ (\E k \in DOMAIN segs : segs[k] = DotStr) => s = DotStr
       /\ \A k \in DOMAIN segs :
              segs[k] = DotDotStr =>
                  /\ ~IsAbs(s)
                  /\ \A j \in 1..(k - 1) : segs[j] = DotDotStr

OnlyWhitespace(s) == \A i \in 1..Len(s) : IsSpace(s[i])

FooDotDotDotDotBar ==
    <<"f", "o", "o", "/", ".", ".", "/", ".", ".", "/", "b", "a", "r">>
DotDotBar == <<".", ".", "/", "b", "a", "r">>
RootDotDotDotDot == <<"/", ".", ".", "/", ".", ".">>
DriveBackslashesHello == <<"c", ":", "\\", "\\", "h", "e", "l", "l", "o">>
DriveHello == <<"c", ":", "/", "h", "e", "l", "l", "o">>

\* the methods the library documents as returning a new Path
Transforming ==
    {"Parent", "Join", "JoinStrings", "WithName", "RelativeTo", "Absolute",
     "AbsoluteTo", "Copy"}

(***************************************************************************)
(* Properties                                                              *)
(***************************************************************************)
\* C1: normalisation is idempotent: normalising the canonical string that
\* NewPath stored gives that string again.
C1_NormalizeIdempotent ==
    last.op = "NewPath" =>
        cleanPathString(heap[last.res]) = heap[last.res]

\* C2: text round trip: decoding the text MarshalText gives for a Path v
\* yields a Path with v's canonical string.
C2_TextRoundTrip ==
    \A v \in Objs :
        ( /\ last.op \in {"NewPath", "UnmarshalText"}
          /\ v # Decoded
          /\ last.raws[1] = MarshalText(heap[v]) )
        => heap[Decoded] = heap[v]

\* C3: after any sequence of calls no canonical string holds two adjacent
\* separators, and none but the root ends with a separator.
C3_SeparatorInvariant ==
    \A i \in Objs :
        /\ ~HasDoubledSeparator(heap[i])
        /\ EndsWithSeparator(heap[i]) => heap[i] = RootStr

C3_Witness ==
    /\ last.op \in {"NewPath", "UnmarshalText"}
    /\ calls = MaxCalls
    /\ HasDoubledSeparator(last.raws[1])
    /\ \E i \in Objs : heap[i] = RootStr

\* C4: in every canonical string "." occurs only as the whole value and
\* ".." only as a leading run of a relative value; "foo/../../bar"
\* normalises to "../bar" and "/../.." to "/".
C4_DotSegmentInvariant ==
    /\ \A i \in Objs : DotSegmentsResolved(heap[i])
    /\ \A i \in Objs :
           ( /\ last.op \in {"NewPath", "UnmarshalText"}
             /\ i = Decoded )
           => /\ last.raws[1] = FooDotDotDotDotBar => heap[i] = DotDotBar
              /\ last.raws[1] = RootDotDotDotDot => heap[i] = RootStr

C4_Witness ==
    /\ last.op = "NewPath"
    /\ last.raws[1] = FooDotDotDotDotBar
    /\ heap[last.res] = DotDotBar
    /\ \E i \in Objs : heap[i] = RootStr

\* C5: the canonical string NewPath stores is never empty and never
\* consists only of whitespace.
C5_NeverBlank ==
    last.op = "NewPath" =>
        heap[last.res] # <<>> /\ ~OnlyWhitespace(heap[last.res])

\* C6: no canonical string contains a backslash; "c:\\hello" with a run of
\* backslashes normalises to "c:/hello".
C6_NoBackslash ==
    /\ \A i \in Objs : \A k \in 1..Len(heap[i]) : heap[i][k] # Backslash
    /\ \A i \in Objs :
           ( /\ last.op \in {"NewPath", "UnmarshalText"}
             /\ i = Decoded
             /\ last.raws[1] = DriveBackslashesHello )
           => heap[i] = DriveHello

C6_Witness ==
    /\ last.op = "NewPath"
    /\ last.raws[1] = DriveBackslashesHello
    /\ heap[last.res] = DriveHello

C8_ReturnsNewInstance ==
    (last.op \in Transforming /\ last.res # 0) =>
        /\ last.res # last.recv
        /\ \A k \in DOMAIN last.args : last.res # last.args[k]

\* C9: joining is associative: a.Join(b).Join(c) and a.Join(b, c) have the
\* same canonical string.
C9_JoinAssociative ==
    (last.op = "Join" /\ Len(last.args) = 2) =>
        heap[last.res] =
            Join(Join(heap[last.recv], <<heap[last.args[1]]>>),
                 <<heap[last.args[2]]>>)

\* C10: for a Path p that is neither the root nor "." nor "..",
\* p.Parent().JoinStrings(p.Base()), which is p.WithName(p.Base()), has p's
\* canonical string.
C10_ParentBaseCoherence ==
    ( /\ last.op = "WithName"
      /\ last.raws[1] = Base(heap[last.recv])
      /\ heap[last.recv] \notin {RootStr, DotStr, DotDotStr} )
    => heap[last.res] = heap[last.recv]

(***************************************************************************)
(* C11 .. C13: extensions and stems                                        *)
(***************************************************************************)
\* the Path the last call was made on
Recv == heap[last.recv]

\* C11: for every Path, MinimalStem() followed by all elements of
\* Extensions() in order is Base(), also for bases that end with a dot or
\* contain consecutive dots and for root and ".".
C11_MinimalStemExtensionsCoherence ==
    last.op = "MinimalStem" =>
        last.out \o Concat(Extensions(Recv)) = Base(Recv)

\* C12: for every Path whose Extension() is not empty, Stem() followed by
\* Extension() is Base(); Stem never slices outside Base.
C12_StemExtensionCoherence ==
    last.op = "Stem" =>
        /\ ~last.err
        /\ Extension(Recv) # EmptyStr =>
               last.out \o Extension(Recv) = Base(Recv)

\* Stem was called on "..bar.js": the base starts with dots and has an
\* extension
C12_Witness ==
    /\ last.op = "Stem"
    /\ Recv = <<".", ".", "b", "a", "r", ".", "j", "s">>
    /\ Extension(Recv) # EmptyStr

\* the edge-case table of the specification
PolicyTable ==
    { [base |-> <<"b", "a", "r", ".", "j", "s">>,
       Extension |-> <<".", "j", "s">>, Extensions |-> <<<<".", "j", "s">>>>,
       Stem |-> <<"b", "a", "r">>, MinimalStem |-> <<"b", "a", "r">>],
      [base |-> <<"b", "a", "r", ".", "j", "s", ".", "f", "o", "o">>,
       Extension |-> <<".", "f", "o", "o">>, Extensions |-> <<<<".", "j", "s">>, <<".", "f", "o", "o">>>>,
       Stem |-> <<"b", "a", "r", ".", "j", "s">>, MinimalStem |-> <<"b", "a", "r">>],
      [base |-> <<".", "b", "a", "r", ".", "j", "s">>,
       Extension |-> <<".", "j", "s">>, Extensions |-> <<<<".", "j", "s">>>>,
       Stem |-> <<".", "b", "a", "r">>, MinimalStem |-> <<".", "b", "a", "r">>],
      [base |-> <<".", ".", "b", "a", "r", ".", "j", "s">>,
       Extension |-> <<".", "j", "s">>, Extensions |-> <<<<".", "j", "s">>>>,
       Stem |-> <<".", ".", "b", "a", "r">>, MinimalStem |-> <<".", ".", "b", "a", "r">>],
      [base |-> <<".", ".", "b", "a", "r">>,
       Extension |-> <<>>, Extensions |-> <<>>,
       Stem |-> <<".", ".", "b", "a", "r">>, MinimalStem |-> <<".", ".", "b", "a", "r">>],
      [base |-> <<".", ".", ".", "b", "a", "r">>,
       Extension |-> <<>>, Extensions |-> <<>>,
       Stem |-> <<".", ".", ".", "b", "a", "r">>, MinimalStem |-> <<".", ".", ".", "b", "a", "r">>] }

\* e is the last dot-delimited suffix of s, its dot included; "" when s has
\* no dot
IsLastDotSuffix(e, s) ==
    IF \A i \in 1..Len(s) : s[i] # Dot THEN e = EmptyStr
    ELSE \E k \in 1..Len(s) :
             /\ s[k] = Dot
             /\ \A j \in (k + 1)..Len(s) : s[j] # Dot
             /\ e = SubSeq(s, k, Len(s))

\* C13: Extension() is the last dot-delimited suffix (with its dot) of
\* Base() once the leading dots are stripped, and "" for root, "." and "..";
\* the four methods give the values of the edge-case table on its bases.
C13_ExtensionPolicy ==
    /\ last.op = "Extension" =>
           IF Base(Recv) \in {RootStr, DotStr, DotDotStr}
           THEN last.out = EmptyStr
           ELSE IsLastDotSuffix(last.out, TrimLeftDots(Base(Recv)))
    /\ \A row \in PolicyTable :
           (last.op \in {"Extension", "Extensions", "Stem", "MinimalStem"}
               /\ Base(Recv) = row.base)
           => last.out = row[last.op]

\* Extension was called on "..bar", whose leading dots start no extension
C13_Witness ==
    /\ last.op = "Extension"
    /\ Recv = <<".", ".", "b", "a", "r">>
    /\ last.out = EmptyStr

(***************************************************************************)
(* C14, C15: Root                                                          *)
(***************************************************************************)
\* C14: Root() of an absolute Path is the separator alone when the Path is
\* the bare root, and otherwise the first segment after the leading
\* separator.
C14_AbsoluteRootIsFirstSegment ==
    (last.op = "Root" /\ IsAbsolute(Recv)) =>
        IF Recv = RootStr THEN last.out = RootStr
        ELSE last.out = SplitSep(Tail(Recv))[1]

\* C14 as amended: Root() of an absolute Path is the separator alone, for the
\* bare root and for every other absolute Path.
C14_AbsoluteRootIsSeparator ==
    (last.op = "Root" /\ IsAbsolute(Recv)) => last.out = <<pathSeparator>>

\* Root was called on an absolute Path that is not the bare root
C14_Witness ==
    /\ last.op = "Root"
    /\ IsAbsolute(Recv)
    /\ Len(Recv) > 1
    /\ last.out = RootStr

\* the examples of C15: <<path, Root()>>
RootExamples ==
    { <<<<".", ".", "/", ".", ".", "/", "b", "a", "r", ".", "j", "s">>,
        <<".", ".", "/", ".", ".", "/", "b", "a", "r", ".", "j", "s">>>>,
      <<<<"f", "o", "o", "/", "b", "a", "r">>,
        <<"f", "o", "o">>>>,
      <<<<"c", ":", "/", "f", "o", "o">>,
        <<"c", ":">>>>,
      <<<<".">>,
        <<".">>>>,
      <<<<"/", "f", "o", "o", "/", "b", "a", "r", ".", "j", "s">>,
        <<"/">>>> }

\* C15: Root() of every absolute Path is "/"; Root() of a relative Path is
\* its leading run of ".." segments plus the first other segment, if any,
\* joined by the separator; the examples give the stated roots.
C15_RootPolicy ==
    last.op = "Root" =>
        /\ IsAbsolute(Recv) => last.out = RootStr
        /\ IsRelative(Recv) =>
               \E n \in 1..Len(SplitSep(Recv)) :
                   /\ \A i \in 1..(n - 1) : SplitSep(Recv)[i] = DotDotStr
                   /\ SplitSep(Recv)[n] # DotDotStr \/ n = Len(SplitSep(Recv))
                   /\ last.out = JoinSep(SubSeq(SplitSep(Recv), 1, n))
        /\ \A e \in RootExamples : Recv = e[1] => last.out = e[2]

\* Root was called on "../../bar.js": two ".." segments and a first other
\* segment
C15_Witness ==
    /\ last.op = "Root"
    /\ Recv = <<".", ".", "/", ".", ".", "/", "b", "a", "r", ".", "j", "s">>
    /\ last.out = Recv

(***************************************************************************)
(* C16 .. C18: RelativeTo and AbsoluteTo                                   *)
(***************************************************************************)
\* the Path passed as the argument of the last call
Other == heap[last.args[1]]

\* the Path the last call returned
Result == heap[last.res]

\* the last call was "a/b".RelativeTo(base), base constructed from ""
RelativeToEmptyBase ==
    /\ last.op = "RelativeTo"
    /\ Recv = <<"a", "/", "b">>
    /\ Other = NewPath(EmptyStr)

\* C16: RelativeTo of the Path "a/b" against a base constructed from the
\* empty string fails with an error.
C16_RelativeToEmptyBaseFails == RelativeToEmptyBase => last.err

\* C16 as amended: RelativeTo of the Path "a/b" against a base constructed
\* from the empty string succeeds and returns "a/b".
C16_RelativeToEmptyBaseSucceeds ==
    RelativeToEmptyBase => (~last.err /\ Result = <<"a", "/", "b">>)

C16_Witness == RelativeToEmptyBase /\ ~last.err

\* C17: RelativeTo returns an error whenever exactly one of self and base is
\* absolute, and whenever p.RelativeTo(base) succeeds with result r,
\* base.Join(r) has the canonical string of p; "/a/b" against "/" gives
\* "a/b", "/" against "/a/b" gives "../..".
C17_RelativeToInvertsJoin ==
    last.op = "RelativeTo" =>
        /\ IsAbsolute(Recv) # IsAbsolute(Other) => last.err
        /\ ~last.err => Join(Other, <<Result>>) = Recv
        /\ (Recv = <<"/", "a", "/", "b">> /\ Other = RootStr)
               => (~last.err /\ Result = <<"a", "/", "b">>)
        /\ (Recv = RootStr /\ Other = <<"/", "a", "/", "b">>)
               => (~last.err /\ Result = <<".", ".", "/", ".", ".">>)

\* C18: AbsoluteTo(base) returns an absolute receiver itself, without error,
\* also when base is relative; for a relative receiver and a relative base
\* it returns no Path and the error "other path must be absolute"; for a
\* relative receiver and an absolute base it returns base.Join(receiver),
\* which is absolute.
C18_AbsoluteToCases ==
    last.op = "AbsoluteTo" =>
        IF IsAbsolute(Recv)
        THEN last.res = last.recv /\ ~last.err
        ELSE IF IsRelative(Other)
        THEN /\ last.res = 0
             /\ last.err
             /\ last.out = "other path must be absolute"
        ELSE /\ last.res \notin {0, last.recv, last.args[1]}
             /\ ~last.err
             /\ Result = Join(Other, <<Recv>>)
             /\ IsAbsolute(Result)

\* a relative receiver was made absolute against an absolute base that is
\* not the root
C18_Witness ==
    /\ last.op = "AbsoluteTo"
    /\ IsRelative(Recv)
    /\ IsAbsolute(Other)
    /\ Other # RootStr
    /\ last.res # 0

(***************************************************************************)
(* C19, C20: JoinStrings and Split                                         *)
(***************************************************************************)
\* C19: for every Path p and raw strings s1..sn, p.JoinStrings(s1, .., sn)
\* has the canonical string of p.Join(NewPath(s1), .., NewPath(sn)).
C19_JoinStringsAgreesWithJoin ==
    last.op = "JoinStrings" =>
        Result = Join(Recv, [i \in DOMAIN last.raws |-> NewPath(last.raws[i])])

\* C20: Split() returns (Parent(), Base()) for every non-root Path, and the
\* root and the empty string for the root.
C20_SplitIsParentAndBase ==
    last.op = "Split" =>
        IF Recv = RootStr
        THEN Result = RootStr /\ last.out = EmptyStr
        ELSE Result = Parent(Recv) /\ last.out = Base(Recv)

(***************************************************************************)
(* C25, C26: Copy; Extension against Extensions                            *)
(***************************************************************************)
\* C25: Copy() returns a distinct Path whose canonical string is the
\* receiver's, for every Path the constructors and transforming operations
\* produce.
C25_CopyEqualsReceiver ==
    last.op = "Copy" =>
        /\ last.res # last.recv
        /\ Result = Recv

\* C26: Extension() is non-empty exactly when Extensions() is, and is then
\* the last element of Extensions(), also for bases that end with a dot.
C26_ExtensionIsLastOfExtensions ==
    last.op = "Extension" =>
        /\ last.out # EmptyStr <=> Extensions(Recv) # <<>>
        /\ last.out # EmptyStr =>
               last.out = Extensions(Recv)[Len(Extensions(Recv))]

(***************************************************************************)
(* C21 .. C24, C27: the filesystem, comparison, flipCase                   *)
(***************************************************************************)
\* the filesystem the last call found, the pattern it was given
Fs == last.out.fs
Pattern == last.raws[1]

\* the pattern is empty or only whitespace
BlankPattern == \A i \in DOMAIN Pattern : IsSpace(Pattern[i])

\* the receiver does not exist; the receiver exists and is no directory
RecvMissing == Found(Fs, Recv) = {}
RecvNoDirectory ==
    /\ Recv \notin Fs.denied
    /\ Found(Fs, Recv) # {}
    /\ \A e \in Found(Fs, Recv) : e \notin DirNames

\* C21: Glob and Contains return an error and no matches whenever the
\* pattern is empty or only whitespace, the receiver does not exist or the
\* receiver is not a directory, and BContains then returns false; without an
\* error Contains is true exactly when Glob has a match, and BContains is
\* what Contains is.
C21_GlobContainsErrors ==
    /\ last.op = "Glob" =>
           /\ (BlankPattern \/ RecvMissing \/ RecvNoDirectory)
                  => (last.err /\ last.out.val = <<>>)
           /\ ~last.err =>
                  /\ ~Contains(Recv, Pattern, Fs).err
                  /\ Contains(Recv, Pattern, Fs).val <=> last.out.val # <<>>
    /\ last.op = "Contains" =>
           /\ (BlankPattern \/ RecvMissing \/ RecvNoDirectory)
                  => (last.err /\ ~last.out.val)
           /\ ~last.err =>
                  /\ ~Glob(Recv, Pattern, Fs).err
                  /\ last.out.val <=> Glob(Recv, Pattern, Fs).paths # <<>>
                  /\ BContains(Recv, Pattern, Fs) = last.out.val
    /\ last.op = "BContains" =>
           /\ (BlankPattern \/ RecvMissing \/ RecvNoDirectory)
                  => ~last.out.val
           /\ ~Contains(Recv, Pattern, Fs).err
                  => last.out.val = Contains(Recv, Pattern, Fs).val

\* Glob found matches in the working directory
C21_Witness ==
    /\ last.op = "Glob"
    /\ Recv = DotStr
    /\ ~last.err
    /\ Len(last.out.val) > 1

\* a character with its case flipped; a character without case is left
FlipChar(c) == IF ToLowerChar(c) # c THEN ToLowerChar(c) ELSE ToUpperChar(c)

\* the sibling of p whose base has its first character case-flipped
Sibling(p) ==
    [i \in DOMAIN p |->
        IF i = LastSepIndex(p) + 1 THEN FlipChar(p[i]) ELSE p[i]]

\* the probe of p fails: p or its sibling cannot be examined
ProbeFails(p) ==
    \/ Stat(Fs, p).err # "none"
    \/ Stat(Fs, Sibling(p)).err = "other"

\* C22: on a case-sensitive filesystem p.EqualsFS(o) is true only if
\* p.Equals(o); on a case-insensitive one it is true exactly when
\* p.EqualsCi(o); it is false when the two are not case-insensitively equal
\* or when probing p fails.  For every existing p, the root and bases that
\* start with a character without case included.
C22_EqualsFSRespectsCase ==
    last.op = "EqualsFS" =>
        /\ Fs.sensitive => (last.out.val => Equals(Recv, Other))
        /\ (~Fs.sensitive /\ ~ProbeFails(Recv))
               => (last.out.val <=> EqualsCi(Recv, Other))
        /\ ToLower(Recv) # ToLower(Other) => ~last.out.val
        /\ ProbeFails(Recv) => ~last.out.val

\* C23: IsCaseSensitiveFs(p) returns the stat error when p does not exist;
\* otherwise true when the sibling of p with the first character of its base
\* case-flipped does not exist, false when the sibling is the same file as
\* p, true when it is a different file, and an error when stat of the
\* sibling fails for another reason than not-found.
C23_CaseProbe ==
    last.op = "IsCaseSensitiveFs" =>
        IF Stat(Fs, Recv).err # "none" THEN last.err
        ELSE IF Stat(Fs, Sibling(Recv)).err = "notexist"
        THEN ~last.err /\ last.out.val
        ELSE IF Stat(Fs, Sibling(Recv)).err = "other"
        THEN last.err
        ELSE /\ ~last.err
             /\ last.out.val <=>
                    Stat(Fs, Sibling(Recv)).id # Stat(Fs, Recv).id

\* C24: p.EqualsCi(NewPath(s)) and p.EqualsStringCi(s) agree, and both are
\* true exactly when the normalised forms of p and s are equal after
\* lower-casing.
C24_CiVariantsAgree ==
    /\ last.op = "EqualsStringCi" =>
           /\ last.out = EqualsCi(Recv, NewPath(last.raws[1]))
           /\ last.out <=> ToLower(Recv) = ToLower(NewPath(last.raws[1]))
    /\ last.op = "EqualsCi" =>
           (last.out <=> ToLower(Recv) = ToLower(Other))

\* C27: flipCase(s) differs from s for every non-empty s: the case of the
\* first character is flipped, the rest is kept.
C27_FlipCaseDiffers ==
    (last.op = "flipCase" /\ last.raws[1] # EmptyStr) =>
        /\ last.out # last.raws[1]
        /\ Tail(last.out) = Tail(last.raws[1])

=============================================================================
